---- MODULE Spec2Model ----
(***************************************************************************)
(* A model of go-feign's method-synthesis engine (src/feign/Client.go).    *)
(*                                                                         *)
(* Client.go holds two implementations of Create: Client (lines 14-266,    *)
(* context-first signatures) and feignClient (lines 280-514).  `variant`   *)
(* selects the implementation a behaviour runs (1 = Client,                *)
(* 2 = feignClient).                                                       *)
(*                                                                         *)
(* Strings are sequences of atoms (an atom stands for one letter of the    *)
(* alphabet), so that prefix tests and strings.ReplaceAll are computed on  *)
(* the text and not assumed.  Go maps are functions with a finite domain.  *)
(***************************************************************************)
EXTENDS Integers, Sequences, FiniteSets, TLC

VARIABLES
    variant,       \* which implementation of Create/NewClient is running
    baseURL,       \* c.baseURL  (cfg.Url)
    headers,       \* c.headers  (the map shared by every callable)
    headersNil,    \* c.headers == nil
    viper,         \* the external key/value lookup behind viper.GetString
    restyBaseURL,  \* the base URL held by the shared resty client
    prog,          \* the target structs this program declares
    bound,         \* the function fields of every target (nil or a callable)
    calls,         \* one record per caller: the invocation in progress
    cfg0,          \* the Config as NewClient received it (never written)
    binds,         \* number of Create calls made
    bindCount,     \* per target: how many times Create bound it
    bindAt,        \* per target: the value of ncalls at its latest Create
    ncalls,        \* number of invocations started
    panicked       \* "" or the message of the panic that ended the program

vars == <<variant, baseURL, headers, headersNil, viper, restyBaseURL, prog,
          bound, calls, cfg0, binds, bindCount, bindAt, ncalls, panicked>>

\* ------------------------------------------------------------------ bounds
MaxBinds == 2
MaxCalls == 2
Callers == {"c1", "c2"}

\* ----------------------------------------------------------------- strings
Empty == <<>>

HasPrefix(s, p) == Len(s) >= Len(p) /\ SubSeq(s, 1, Len(p)) = p

\* does old occur in s at position i
MatchAt(s, old, i) ==
    i + Len(old) - 1 <= Len(s) /\ SubSeq(s, i, i + Len(old) - 1) = old

\* strings.ReplaceAll for a non-empty old: leftmost, non-overlapping matches
RECURSIVE ReplaceFrom(_, _, _, _)
ReplaceFrom(s, old, new, i) ==
    IF i > Len(s) THEN <<>>
    ELSE IF MatchAt(s, old, i)
         THEN new \o ReplaceFrom(s, old, new, i + Len(old))
         ELSE <<s[i]>> \o ReplaceFrom(s, old, new, i + 1)

ReplaceAll(s, old, new) == ReplaceFrom(s, old, new, 1)

\* decimal digits of a natural number, as fmt's %v prints an int
Digit(d) == <<"0", "1", "2", "3", "4", "5", "6", "7", "8", "9">>[d + 1]

RECURSIVE Itoa(_)
Itoa(n) == IF n < 10 THEN <<Digit(n)>> ELSE Itoa(n \div 10) \o <<Digit(n % 10)>>

\* fmt.Sprintf("%v", arg)
Sprint(a) ==
    CASE a.kind = "str" -> a.s
      [] a.kind = "int" -> Itoa(a.n)
      [] OTHER          -> <<"<", a.kind, ">">>

StrArg(s) == [kind |-> "str", s |-> s, n |-> 0]
IntArg(n) == [kind |-> "int", s |-> <<>>, n |-> n]
CtxArg    == [kind |-> "ctx", s |-> <<>>, n |-> 0]

\* strings.ToUpper on the directive words used by the targets
ToUpper(w) ==
    CASE w \in {"GET", "get", "Get"}          -> "GET"
      [] w \in {"POST", "post", "Post"}       -> "POST"
      [] w \in {"PUT", "put"}                 -> "PUT"
      [] w \in {"DELETE", "delete"}           -> "DELETE"
      [] w \in {"PATH", "Path", "path"}       -> "PATH"
      [] w \in {"HEADER", "Header", "header"} -> "HEADER"
      [] w \in {"QUERY", "Query", "query"}    -> "QUERY"
      [] w \in {"BODY", "Body", "body"}       -> "BODY"
      [] w \in {"URL", "Url", "url"}          -> "URL"
      [] OTHER                                -> w

\* ------------------------------------------------------------------- maps
EmptyMap == [k \in {} |-> <<>>]

Put(m, k, v) == [x \in DOMAIN m \cup {k} |-> IF x = k THEN v ELSE m[x]]

\* for k, v := range src { dst[k] = v }
PutAll(dst, src) ==
    [x \in DOMAIN dst \cup DOMAIN src |-> IF x \in DOMAIN src THEN src[x] ELSE dst[x]]

\* ----------------------------------------------------- target declarations
\* One directive entry of a `feign:"..."` tag after strings.Split(tag, "|"),
\* TrimSpace and strings.Fields: parts[0] is "@"+word when at, word otherwise;
\* vals are parts[1..].  The empty entry is L0.
D(word, vals)  == [at |-> TRUE,  word |-> word, vals |-> vals]
Raw(word)      == [at |-> FALSE, word |-> word, vals |-> <<>>]
L0             == [at |-> FALSE, word |-> "",   vals |-> <<>>]

\* parameter types of a function field: the Client implementation requires a
\* leading context.Context, the feignClient implementation takes none
Ins(v, n) == IF v = 1 THEN <<"ctx">> \o [i \in 1..n |-> "val"]
                       ELSE [i \in 1..n |-> "val"]

Fn(name, tag, ins, numOut, out1Err, out0) ==
    [kind |-> "func", name |-> name, tag |-> tag, ins |-> ins,
     numOut |-> numOut, out1Err |-> out1Err, out0 |-> out0]

Marker(tag) ==
    [kind |-> "marker", name |-> "_", tag |-> tag, ins |-> <<>>,
     numOut |-> 0, out1Err |-> FALSE, out0 |-> ""]

Other(name) ==
    [kind |-> "other", name |-> name, tag |-> <<>>, ins |-> <<>>,
     numOut |-> 0, out1Err |-> FALSE, out0 |-> ""]

Auth  == <<"Authorization">>
XDef  == <<"X-Default">>
CType == <<"Content-Type">>

GetUserTag ==
    << D("GET", << <<"/users/", "{", "id", "}">> >>), D("Path", << <<"id">> >>),
       D("Header", <<Auth>>) >>
CreateUserTag ==
    << D("POST", << <<"/users">> >>), D("Body", << <<"user">> >>),
       D("Header", <<Auth>>) >>
GetAllUserTag ==
    << D("POST", << <<"/users">> >>), D("Header", <<Auth>>) >>
\* roles interleaved, verb in lower case, an empty entry
FindTag ==
    << D("Header", <<Auth>>), D("get", << <<"/o/", "{", "a", "}">> >>),
       D("Query", << <<"q">> >>), L0, D("Path", << <<"a">> >>) >>
\* two path variables
PairTag ==
    << D("GET", << <<"/o/", "{", "a", "}", "/", "{", "b", "}">> >>),
       D("Path", << <<"a">> >>), D("Path", << <<"b">> >>) >>

LiteralUrl == <<"http://", "localhost">>
OtherUrl   == <<"https://", "billing">>
LookupKey  == <<"orders.url">>
LookupUrl  == <<"http://", "orders">>
ConfigUrl  == <<"http://", "cfg">>

\* the target struct types of the model; cmd/main.go declares UserClient
TargetNames ==
    {"UserClient", "Orders", "Billing", "Plain", "Short", "Loose", "BadSig",
     "NoCtx", "Empty"}

TargetType(v, t) ==
    CASE t = "UserClient" ->
           << Marker(<< D("Url", <<LiteralUrl>>) >>),
              Fn("GetUser", GetUserTag, Ins(v, 2), 2, TRUE, "ptr"),
              Fn("CreateUser", CreateUserTag, Ins(v, 2), 2, TRUE, "ptr"),
              Fn("GetAllUser", GetAllUserTag, Ins(v, 1), 2, TRUE, "slice") >>
      [] t = "Orders" ->
           << Marker(<< Raw("base"), D("Url", <<LookupKey>>) >>),
              Fn("Find", FindTag, Ins(v, 3), 2, TRUE, "ptr"),
              Fn("Pair", PairTag, Ins(v, 2), 2, TRUE, "ptr") >>
      [] t = "Billing" ->
           << Marker(<< D("Url", <<>>) >>),
              Marker(<< D("Url", <<OtherUrl>>) >>),
              Fn("GetUser", GetUserTag, Ins(v, 2), 2, TRUE, "ptr") >>
      [] t = "Plain" ->
           << Other("Name"),
              Fn("GetUser", GetUserTag, Ins(v, 2), 2, TRUE, "ptr"),
              Fn("Ping", << D("GET", << <<"/ping">> >>) >>, Ins(v, 0), 2, TRUE, "ptr") >>
      [] t = "Short" ->
           << Fn("Short", GetUserTag, Ins(v, 1), 2, TRUE, "ptr"),
              Fn("Long", << D("GET", << <<"/users/", "{", "id", "}">> >>),
                            D("Path", << <<"id">> >>) >>, Ins(v, 2), 2, TRUE, "ptr"),
              Fn("NoBody", << D("POST", << <<"/users">> >>),
                              D("Body", << <<"user">> >>) >>, Ins(v, 0), 2, TRUE, "ptr") >>
      [] t = "Loose" ->
           << Fn("NoVerb", << D("Path", << <<"id">> >>), D("Foo", << <<"x">> >>) >>,
                 Ins(v, 1), 2, TRUE, "ptr"),
              Fn("NoPath", << D("GET", <<>>), Raw("GET") >>, Ins(v, 0), 2, TRUE, "ptr"),
              Fn("TwoVerbs", << D("GET", << <<"/a">> >>), D("Post", << <<"/b">> >>) >>,
                 Ins(v, 0), 2, TRUE, "ptr") >>
      [] t = "BadSig" ->
           << Fn("Ping", << D("GET", << <<"/ping">> >>) >>, Ins(v, 0), 2, TRUE, "ptr"),
              Fn("OneResult", << D("GET", << <<"/ping">> >>) >>, Ins(v, 0), 1, TRUE, "ptr"),
              Fn("Never", << D("GET", << <<"/ping">> >>) >>, Ins(v, 0), 2, TRUE, "ptr") >>
      [] t = "NoCtx" ->
           << Fn("StrFirst", << D("GET", << <<"/users/", "{", "id", "}">> >>),
                                D("Path", << <<"id">> >>) >>, <<"val">>, 2, TRUE, "ptr"),
              Fn("ZeroIn", << D("GET", << <<"/ping">> >>) >>, <<>>, 2, FALSE, "ptr") >>
      [] OTHER -> \* "Empty": no function field, an @Url entry without a value
           << Marker(<< D("Url", <<>>) >>), Other("Name") >>

\* the programs of the model: which targets one process declares and binds
Programs ==
    { {"Orders"}, {"Billing"}, {"Plain"}, {"Short"}, {"Loose"}, {"BadSig"},
      {"NoCtx"}, {"UserClient", "Empty"} }

\* the configurations NewClient is given, with the state of the viper store
DefaultHeaders == [k \in {Auth, XDef} |-> IF k = Auth THEN <<"cfgtok">> ELSE <<"d">>]

Configs ==
    { [url |-> ConfigUrl, nil |-> FALSE, hdr |-> DefaultHeaders, viper |-> EmptyMap],
      [url |-> ConfigUrl, nil |-> TRUE,  hdr |-> EmptyMap,
       viper |-> [k \in {LookupKey} |-> LookupUrl]],
      [url |-> Empty,     nil |-> TRUE,  hdr |-> EmptyMap,       viper |-> EmptyMap] }

ArgValues == {IntArg(12), StrArg(<<"{", "b", "}">>)}

\* -------------------------------------------------------- base URL (bind)
\* viper.GetString(key): "" when the key is not set
GetString(store, key) == IF key \in DOMAIN store THEN store[key] ELSE Empty

resolveUrl(store, value) ==
    IF HasPrefix(value, <<"http://">>) \/ HasPrefix(value, <<"https://">>)
    THEN value
    ELSE GetString(store, value)

\* strings.HasPrefix(line, "@Url") on one entry of a marker's tag
IsUrlLine(line) == line.at /\ line.word \in {"Url", "Urls", "UrlBase"}

\* the inner loop over the entries of one marker field: the first @Url entry
\* with a value decides and ends the loop.  The Client implementation keeps
\* the current base URL when the resolved value is empty.
RECURSIVE UrlOfTag(_, _, _, _, _)
UrlOfTag(v, store, tag, i, cur) ==
    IF i > Len(tag) THEN cur
    ELSE IF IsUrlLine(tag[i]) /\ Len(tag[i].vals) >= 1
         THEN LET url == resolveUrl(store, tag[i].vals[1])
              IN  IF v = 1 THEN (IF url # Empty THEN url ELSE cur) ELSE url
         ELSE UrlOfTag(v, store, tag, i + 1, cur)

\* the outer loop over the struct's fields: stops at the first marker field
\* that changed the base URL
RECURSIVE ResolveBase(_, _, _, _, _, _)
ResolveBase(v, store, cfgUrl, fields, i, cur) ==
    IF i > Len(fields) THEN cur
    ELSE IF fields[i].kind = "marker"
         THEN LET nxt == UrlOfTag(v, store, fields[i].tag, 1, cur)
              IN  IF nxt # cfgUrl THEN nxt
                  ELSE ResolveBase(v, store, cfgUrl, fields, i + 1, nxt)
         ELSE ResolveBase(v, store, cfgUrl, fields, i + 1, cur)

\* ------------------------------------------------------ directive parsing
NoTemplate ==
    [httpMethod |-> "", path |-> Empty, bodyParam |-> Empty, paths |-> <<>>,
     headers |-> <<>>, queries |-> <<>>]

Verbs == {"GET", "POST", "PUT", "DELETE"}

\* one iteration of the loop over the entries of a function field's tag
ParseLine(tm, line) ==
    IF ~line.at \/ Len(line.vals) < 1 THEN tm
    ELSE LET tag   == ToUpper(line.word)
             value == line.vals[1]
         IN  CASE tag \in Verbs  -> [tm EXCEPT !.httpMethod = tag, !.path = value]
               [] tag = "PATH"   -> [tm EXCEPT !.paths = Append(@, value)]
               [] tag = "HEADER" -> [tm EXCEPT !.headers = Append(@, value)]
               [] tag = "BODY"   -> [tm EXCEPT !.bodyParam = value]
               [] tag = "QUERY"  -> [tm EXCEPT !.queries = Append(@, value)]
               [] OTHER          -> tm

RECURSIVE ParseFrom(_, _, _)
ParseFrom(doc, i, tm) ==
    IF i > Len(doc) THEN tm ELSE ParseFrom(doc, i + 1, ParseLine(tm, doc[i]))

ParseTag(doc) == ParseFrom(doc, 1, NoTemplate)

\* ------------------------------------------------------------ validation
\* the panic message of the signature checks, "" when the field passes.
\* Only the Client implementation checks the parameters.
SignaturePanic(v, f) ==
    IF v = 1 /\ Len(f.ins) < 1 THEN "must have at least one parameter"
    ELSE IF v = 1 /\ f.ins[1] # "ctx" THEN "first parameter must be context.Context"
    ELSE IF f.numOut # 2 \/ ~f.out1Err THEN "must return (*T, error)"
    ELSE ""

\* --------------------------------------------------------------- binding
NilFn ==
    [set |-> FALSE, name |-> "", tm |-> NoTemplate, baseUrl |-> Empty,
     ins |-> <<>>, out0 |-> ""]

\* reflect.MakeFunc(methodType, closure): the closure captures the parsed
\* template, the resolved base URL and the method type
MakeFunc(f, baseUrl) ==
    [set |-> TRUE, name |-> f.name, tm |-> ParseTag(f.tag), baseUrl |-> baseUrl,
     ins |-> f.ins, out0 |-> f.out0]

\* the second loop of Create from field i on: fns are the target's fields so
\* far; a panic leaves the fields set before it
RECURSIVE BindFields(_, _, _, _, _)
BindFields(v, fields, baseUrl, i, fns) ==
    IF i > Len(fields) THEN [fns |-> fns, panic |-> ""]
    ELSE IF fields[i].kind # "func" THEN BindFields(v, fields, baseUrl, i + 1, fns)
    ELSE IF SignaturePanic(v, fields[i]) # ""
         THEN [fns |-> fns, panic |-> SignaturePanic(v, fields[i])]
    ELSE BindFields(v, fields, baseUrl, i + 1,
                    [fns EXCEPT ![i] = MakeFunc(fields[i], baseUrl)])

\* ------------------------------------------------- request building (call)
Placeholder(p) == <<"{">> \o p \o <<"}">>

\* index (from 1) of the first positional argument after the context
FirstArg(v) == IF v = 1 THEN 2 ELSE 1

\* for _, p := range paths: substitute {p} everywhere in the path built so
\* far; the loop ends early when the arguments run out.  `used` records which
\* argument each binding consumed.
RECURSIVE PathLoop(_, _, _, _, _, _)
PathLoop(path, paths, args, j, k, used) ==
    IF k > Len(paths) \/ j > Len(args)
    THEN [path |-> path, j |-> j, used |-> used]
    ELSE PathLoop(ReplaceAll(path, Placeholder(paths[k]), Sprint(args[j])),
                  paths, args, j + 1, k + 1,
                  Append(used, [role |-> "PATH", k |-> k, arg |-> j]))

\* for _, q := range names: m[q] = Sprint(args[j]); same early end
RECURSIVE MapLoop(_, _, _, _, _, _, _)
MapLoop(role, names, args, j, k, m, used) ==
    IF k > Len(names) \/ j > Len(args)
    THEN [m |-> m, j |-> j, used |-> used]
    ELSE MapLoop(role, names, args, j + 1, k + 1, Put(m, names[k], Sprint(args[j])),
                 Append(used, [role |-> role, k |-> k, arg |-> j]))

NoArg == [kind |-> "none", s |-> <<>>, n |-> 0]

\* BuildArgs with the header loop run before the query loop
BuildArgsHeadersFirst(v, fn, args) ==
    LET tm      == fn.tm
        j0      == FirstArg(v)
        hasBody == tm.bodyParam # Empty
        missing == hasBody /\ j0 > Len(args)
        j1      == IF hasBody THEN j0 + 1 ELSE j0
        used0   == IF hasBody THEN << [role |-> "BODY", k |-> 1, arg |-> j0] >> ELSE <<>>
        pl      == PathLoop(tm.path, tm.paths, args, j1, 1, used0)
        hl      == MapLoop("HEADER", tm.headers, args, pl.j, 1, EmptyMap, pl.used)
        ql      == MapLoop("QUERY", tm.queries, args, hl.j, 1, EmptyMap, hl.used)
    IN  IF missing
        THEN [panic |-> "body param missing in function call args",
              hasBody |-> TRUE, body |-> NoArg, path |-> Empty, query |-> EmptyMap,
              hdrs |-> EmptyMap, used |-> <<>>]
        ELSE [panic |-> "", hasBody |-> hasBody,
              body |-> IF hasBody THEN args[j0] ELSE NoArg,
              path |-> pl.path, query |-> ql.m, hdrs |-> hl.m,
              used |-> ql.used]

\* the call-local part of the closure, up to the Resty request: body, path,
\* query parameters and per-call headers, in this order of consumption
BuildArgs(v, fn, args) ==
    LET tm      == fn.tm
        j0      == FirstArg(v)
        hasBody == tm.bodyParam # Empty
        missing == hasBody /\ j0 > Len(args)
        j1      == IF hasBody THEN j0 + 1 ELSE j0
        used0   == IF hasBody THEN << [role |-> "BODY", k |-> 1, arg |-> j0] >> ELSE <<>>
        pl      == PathLoop(tm.path, tm.paths, args, j1, 1, used0)
        ql      == MapLoop("QUERY", tm.queries, args, pl.j, 1, EmptyMap, pl.used)
        hl      == MapLoop("HEADER", tm.headers, args, ql.j, 1, EmptyMap, ql.used)
    IN  IF missing
        THEN [panic |-> IF v = 1 THEN "body param missing in function call args"
                                 ELSE "index out of range",
              hasBody |-> TRUE, body |-> NoArg, path |-> Empty, query |-> EmptyMap,
              hdrs |-> EmptyMap, used |-> <<>>]
        ELSE [panic |-> "", hasBody |-> hasBody,
              body |-> IF hasBody THEN args[j0] ELSE NoArg,
              path |-> pl.path, query |-> ql.m, hdrs |-> hl.m,
              used |-> hl.used]

\* ------------------------------------------------------- response mapping
JsonObj  == <<"{\"id\":\"123\"}">>
NotFound == <<"not found">>

Resp(status, text, body) == [got |-> TRUE, status |-> status, text |-> text, body |-> body]
NoResp(cause)            == [got |-> FALSE, status |-> 0, text |-> "", body |-> cause]

\* what r.Execute can come back with: no response at all, or a response
Outcomes ==
    { NoResp(<<"dial tcp: connection refused">>),
      Resp(200, "200 OK", JsonObj), Resp(200, "200 OK", NotFound),
      Resp(299, "299", JsonObj), Resp(300, "300 Multiple Choices", JsonObj),
      Resp(404, "404 Not Found", NotFound) }

\* json.Unmarshal(body, *T) for a struct T: "" or the error text
Unmarshal(body) ==
    CASE body = JsonObj -> ""
      [] OTHER          -> "invalid character"

NilErr == [type |-> "nil", StatusCode |-> 0, Status |-> "", Body |-> Empty]
HttpError(code, status, body) ==
    [type |-> "HttpError", StatusCode |-> code, Status |-> status, Body |-> body]
UnmarshalErr(cause) ==
    [type |-> "unmarshal failed", StatusCode |-> 0, Status |-> cause, Body |-> Empty]

Zero     == [zero |-> TRUE, val |-> Empty]
Value(b) == [zero |-> FALSE, val |-> b]
NoRet    == [kind |-> "none", result |-> Zero, err |-> NilErr]
Pair(result, err) == [kind |-> "pair", result |-> result, err |-> err]
\* reflect rejects the closure's results: the call does not return
WrongType == [kind |-> "panic", result |-> Zero, err |-> NilErr]

\* a response is outside [200,300)
Non2xx(status) == status < 200 \/ status >= 300

\* reflect.New(Out(0).Elem()) is a *T; it is assignable to the declared first
\* result only when that result is itself the pointer type *T
Assignable(out0) == out0 = "ptr"

\* MapResponse with the upper status bound off by one (300 taken for success)
MapResponseOffByOne(fn, out) ==
    IF ~out.got
    THEN [pc |-> "transport-error", decodes |-> 0,
          ret |-> Pair(Zero, HttpError(0, "connection failed", out.body))]
    ELSE IF out.status < 200 \/ out.status > 300
    THEN [pc |-> "non-2xx", decodes |-> 0,
          ret |-> Pair(Zero, HttpError(out.status, out.text, out.body))]
    ELSE IF Unmarshal(out.body) # ""
    THEN [pc |-> "decode-failed", decodes |-> 1,
          ret |-> Pair(Zero, UnmarshalErr(Unmarshal(out.body)))]
    ELSE [pc |-> "decoded", decodes |-> 1,
          ret |-> IF Assignable(fn.out0) THEN Pair(Value(out.body), NilErr)
                                         ELSE WrongType]

\* the closure after r.Execute: the terminal state and what is returned
MapResponse(fn, out) ==
    IF ~out.got
    THEN [pc |-> "transport-error", decodes |-> 0,
          ret |-> Pair(Zero, HttpError(0, "connection failed", out.body))]
    ELSE IF Non2xx(out.status)
    THEN [pc |-> "non-2xx", decodes |-> 0,
          ret |-> Pair(Zero, HttpError(out.status, out.text, out.body))]
    ELSE IF Unmarshal(out.body) # ""
    THEN [pc |-> "decode-failed", decodes |-> 1,
          ret |-> Pair(Zero, UnmarshalErr(Unmarshal(out.body)))]
    ELSE [pc |-> "decoded", decodes |-> 1,
          ret |-> IF Assignable(fn.out0) THEN Pair(Value(out.body), NilErr)
                                         ELSE WrongType]

\* ------------------------------------------------------------------ state
NoBuild ==
    [panic |-> "", hasBody |-> FALSE, body |-> NoArg, path |-> Empty,
     query |-> EmptyMap, hdrs |-> EmptyMap, used |-> <<>>]

NilCall ==
    [pc |-> "idle", target |-> "", field |-> 0, fn |-> NilFn, args |-> <<>>,
     b |-> NoBuild, h0 |-> EmptyMap, reqHeaders |-> EmptyMap, url |-> Empty,
     logged |-> Empty, execs |-> 0, decodes |-> 0, hist |-> <<>>, no |-> 0,
     resp |-> NoResp(Empty), ret |-> NoRet]

Terminal == {"transport-error", "non-2xx", "decoded", "decode-failed"}
AtRest   == {"idle"} \cup Terminal

\* the argument lists Go's type checker admits for a method type
ArgLists(ins) ==
    {a \in [1..Len(ins) -> ArgValues \cup {CtxArg}] :
        \A i \in 1..Len(ins) : (a[i] = CtxArg) <=> (ins[i] = "ctx")}

\* NewClient(cfg): the client keeps cfg.Url and the cfg.Headers map itself
Init ==
    /\ variant \in {1, 2}
    /\ cfg0 \in Configs
    /\ baseURL = cfg0.url
    /\ headers = cfg0.hdr
    /\ headersNil = cfg0.nil
    /\ viper = cfg0.viper
    /\ restyBaseURL = Empty
    /\ prog \in Programs
    /\ bound = [t \in prog |-> [i \in 1..Len(TargetType(variant, t)) |-> NilFn]]
    /\ calls = [c \in Callers |-> NilCall]
    /\ binds = 0
    /\ bindCount = [t \in prog |-> 0]
    /\ bindAt = [t \in prog |-> 0]
    /\ ncalls = 0
    /\ panicked = ""

\* Create(target): resolve the base URL, set it on the shared resty client,
\* then validate, parse and bind every function field in order.  Binding is a
\* start-up operation: it runs while no invocation is in flight.
Create(t) ==
    /\ panicked = ""
    /\ binds < MaxBinds
    /\ \A c \in Callers : calls[c].pc \in AtRest
    /\ LET fields  == TargetType(variant, t)
           baseUrl == ResolveBase(variant, viper, baseURL, fields, 1, baseURL)
           res     == BindFields(variant, fields, baseUrl, 1, bound[t])
       IN  /\ restyBaseURL' = baseUrl
           /\ bound' = [bound EXCEPT ![t] = res.fns]
           /\ panicked' = res.panic
    /\ binds' = binds + 1
    /\ bindCount' = [bindCount EXCEPT ![t] = @ + 1]
    /\ bindAt' = [bindAt EXCEPT ![t] = ncalls]
    /\ UNCHANGED <<variant, baseURL, headers, headersNil, viper, prog, calls, cfg0, ncalls>>

\* a caller invokes the callable held by field i of target t: the closure
\* runs up to and including the writes of the per-call headers into c.headers
Invoke(c, t, i, args) ==
    /\ panicked = ""
    /\ ncalls < MaxCalls
    /\ calls[c].pc \in AtRest
    /\ bound[t][i].set
    /\ LET fn == bound[t][i]
           b  == BuildArgs(variant, fn, args)
       IN  IF b.panic # ""
           THEN /\ panicked' = b.panic
                /\ calls' = [calls EXCEPT ![c] =
                       [NilCall EXCEPT !.pc = "panic", !.target = t, !.field = i,
                                       !.fn = fn, !.args = args, !.b = b,
                                       !.no = ncalls + 1]]
                /\ UNCHANGED <<headers, headersNil>>
           ELSE /\ headersNil' = FALSE
                /\ headers' = PutAll(headers, b.hdrs)
                /\ calls' = [calls EXCEPT ![c] =
                       [NilCall EXCEPT !.pc = "merged", !.target = t, !.field = i,
                                       !.fn = fn, !.args = args, !.b = b,
                                       !.h0 = headers, !.no = ncalls + 1]]
                /\ UNCHANGED panicked
    /\ ncalls' = ncalls + 1
    /\ UNCHANGED <<variant, baseURL, viper, restyBaseURL, prog, bound, cfg0, binds,
                   bindCount, bindAt>>

\* the unsynchronised write of c.headers while another caller is about to
\* range over the same map: the Go runtime may end the process
InvokeRace(c, t, i, args) ==
    /\ panicked = ""
    /\ ncalls < MaxCalls
    /\ calls[c].pc \in AtRest
    /\ bound[t][i].set
    /\ \E d \in Callers \ {c} : calls[d].pc = "merged"
    /\ LET b == BuildArgs(variant, bound[t][i], args)
       IN  b.panic = "" /\ DOMAIN b.hdrs # {}
    /\ panicked' = "fatal error: concurrent map read and map write"
    /\ ncalls' = ncalls + 1
    /\ UNCHANGED <<variant, baseURL, headers, headersNil, viper, restyBaseURL, prog,
                   bound, calls, cfg0, binds, bindCount, bindAt>>

\* the request's headers are read from c.headers as it is now; a body adds
\* the content type
RequestHeaders(shared, b) ==
    IF b.hasBody THEN Put(shared, CType, <<"application/json">>) ELSE shared

BuildRequest(c) ==
    /\ panicked = ""
    /\ calls[c].pc = "merged"
    /\ calls' = [calls EXCEPT ![c].pc = "built",
                              ![c].reqHeaders = RequestHeaders(headers, calls[c].b),
                              ![c].logged = calls[c].fn.baseUrl \o calls[c].b.path,
                              ![c].hist = Append(@, "built")]
    /\ UNCHANGED <<variant, baseURL, headers, headersNil, viper, restyBaseURL, prog,
                   bound, cfg0, binds, bindCount, bindAt, ncalls, panicked>>

\* r.Execute(httpMethod, pathProcessed) on the shared resty client
Send(c) ==
    /\ panicked = ""
    /\ calls[c].pc = "built"
    /\ calls' = [calls EXCEPT ![c].pc = "sent",
                              ![c].url = restyBaseURL \o calls[c].b.path,
                              ![c].execs = @ + 1,
                              ![c].hist = Append(@, "sent")]
    /\ UNCHANGED <<variant, baseURL, headers, headersNil, viper, restyBaseURL, prog,
                   bound, cfg0, binds, bindCount, bindAt, ncalls, panicked>>

\* Execute comes back and the closure maps the outcome to its results
Receive(c, out) ==
    /\ panicked = ""
    /\ calls[c].pc = "sent"
    /\ LET m == MapResponse(calls[c].fn, out)
       IN  /\ calls' = [calls EXCEPT ![c].pc = m.pc, ![c].ret = m.ret, ![c].resp = out,
                                     ![c].decodes = m.decodes,
                                     ![c].hist = Append(@, m.pc)]
           /\ panicked' = IF m.ret.kind = "panic"
                          THEN "reflect: function created by MakeFunc returned wrong type"
                          ELSE ""
    /\ UNCHANGED <<variant, baseURL, headers, headersNil, viper, restyBaseURL, prog,
                   bound, cfg0, binds, bindCount, bindAt, ncalls>>

Fields(t) == 1..Len(TargetType(variant, t))

\* callers are interchangeable: the second one is used only while the first
\* is in flight
MayStart(c) == c = "c1" \/ calls["c1"].pc \notin AtRest

\* the steps of one caller
CallerStep(c) ==
    \/ \E t \in prog : \E i \in Fields(t) :
          \E args \in ArgLists(bound[t][i].ins) : MayStart(c) /\ Invoke(c, t, i, args)
    \/ BuildRequest(c)
    \/ Send(c)
    \/ \E out \in Outcomes : Receive(c, out)

Race ==
    \E c \in Callers, t \in prog : \E i \in Fields(t) :
        \E args \in ArgLists(bound[t][i].ins) : InvokeRace(c, t, i, args)

Bind == \E t \in prog : Create(t)

\* one goroutine binds and calls: every program and configuration
NextSeq == Bind \/ CallerStep("c1")

SpecSeq == Init /\ [][NextSeq]_vars

\* two goroutines call concurrently
ConcurrentPrograms == { {"Plain"} }

InitConc == Init /\ prog \in ConcurrentPrograms

Next == Bind \/ (\E c \in Callers : CallerStep(c)) \/ Race

Spec == InitConc /\ [][Next]_vars

\* ================================================================= claims
Past(k)     == k.pc \in {"built", "sent"} \cup Terminal
Finished(k) == k.pc \in Terminal

\* C1 (as stated): every invocation that maps an outcome returns a pair
\* (result, error); the error is non-nil exactly when no result was decoded,
\* and the result is the zero value in every failing outcome.
C1_ReturnsPair ==
    \A c \in Callers :
        Finished(calls[c]) =>
            /\ calls[c].ret.kind = "pair"
            /\ (calls[c].ret.err.type # "nil") <=> (calls[c].pc # "decoded")
            /\ (calls[c].pc # "decoded") <=> calls[c].ret.result.zero

\* the per-call state machine: built -> sent -> one terminal state
MachinePaths ==
    { <<>>, <<"built">>, <<"built", "sent">> } \cup
    { <<"built", "sent", t>> : t \in Terminal }

BodySlots(tm) == IF tm.bodyParam # Empty THEN 1 ELSE 0

\* the number of parameters a template binds: context (Client only), body,
\* then one per @Path, @Query and @Header entry
Arity(tm) ==
    (FirstArg(variant) - 1) + BodySlots(tm) + Len(tm.paths) + Len(tm.queries)
        + Len(tm.headers)

ArityMatches(fn) == Len(fn.ins) = Arity(fn.tm)

\* the position of the k-th binding of a role in the fixed order
\* [context] [body] paths queries headers
Position(tm, role, k) ==
    FirstArg(variant) - 1 + BodySlots(tm) + k
      + (IF role \in {"QUERY", "HEADER"} THEN Len(tm.paths) ELSE 0)
      + (IF role = "HEADER" THEN Len(tm.queries) ELSE 0)

Distinct(names) ==
    \A x, y \in 1..Len(names) : names[x] = names[y] => x = y

\* C7: with an argument list of the template's arity, the arguments are
\* consumed in the order [context] [body] @Path entries, @Query entries,
\* @Header entries, each role in declaration order and whatever the order of
\* the entries in the tag; every binding gets the argument at its position
\* and no argument serves two bindings.
C7_PositionalOrder ==
    \A c \in Callers :
        LET k  == calls[c]
            tm == k.fn.tm
            b  == k.b
        IN  (k.pc \notin {"idle", "panic"} /\ ArityMatches(k.fn)) =>
              /\ variant = 1 => k.args[1] = CtxArg
              /\ b.hasBody => b.body = k.args[FirstArg(variant)]
              /\ Len(b.used) = Len(k.args) - (FirstArg(variant) - 1)
              /\ \A u \in 1..Len(b.used) :
                    /\ b.used[u].arg = FirstArg(variant) - 1 + u
                    /\ b.used[u].role # "BODY" =>
                          b.used[u].arg = Position(tm, b.used[u].role, b.used[u].k)
              /\ Distinct(tm.queries) =>
                    \A q \in 1..Len(tm.queries) :
                        b.query[tm.queries[q]] = Sprint(k.args[Position(tm, "QUERY", q)])
              /\ Distinct(tm.headers) =>
                    \A h \in 1..Len(tm.headers) :
                        b.hdrs[tm.headers[h]] = Sprint(k.args[Position(tm, "HEADER", h)])
              /\ DOMAIN b.query = {tm.queries[q] : q \in 1..Len(tm.queries)}
              /\ DOMAIN b.hdrs = {tm.headers[h] : h \in 1..Len(tm.headers)}

\* C7's case: Find, whose tag lists the header before the verb, the query
\* and the path, was called with different values for query and header
C7_Witness ==
    /\ calls["c1"].fn.name = "Find"
    /\ calls["c1"].pc = "sent"
    /\ calls["c1"].b.path = <<"/o/", "1", "2">>
    /\ calls["c1"].b.query[<<"q">>] = <<"{", "b", "}">>
    /\ calls["c1"].b.hdrs[Auth] = <<"1", "2">>

\* ------------------------------------------------------------- headers
\* the headers a request is meant to carry: the defaults overlaid with the
\* call's own @Header values, and the content type of a body
Overlay(defaults, b) == RequestHeaders(PutAll(defaults, b.hdrs), b)

\* C3 (as stated): invocations leave the client's default header map as it
\* was constructed, and every request carries exactly the construction-time
\* defaults overlaid with its own @Header arguments.
C3_DefaultsReadOnly ==
    /\ headers = cfg0.hdr
    /\ \A c \in Callers :
          Past(calls[c]) => calls[c].reqHeaders = Overlay(cfg0.hdr, calls[c].b)

\* C4 (as stated): under any interleaving of invocations, each request
\* carries the headers it would carry had the invocation run alone from the
\* state it started in.
C4_CallsIsolated ==
    \A c \in Callers :
        Past(calls[c]) => calls[c].reqHeaders = Overlay(calls[c].h0, calls[c].b)

\* C10 (as stated): after Create ran again on a target, its fields hold the
\* callables of the latest bind, and the first request through one of them
\* is determined by the template, the construction-time configuration and
\* the call's arguments only: nothing of the calls made before the rebind.
C10_RebindNoLeak ==
    \A c \in Callers :
        LET k == calls[c]
        IN  (/\ Past(k)
             /\ bindCount[k.target] >= 2
             /\ k.no = bindAt[k.target] + 1
             /\ k.fn = bound[k.target][k.field]) =>
                k.reqHeaders = Overlay(cfg0.hdr, k.b)

\* --------------------------------------------------------------- binding
\* the entries of a tag that name an HTTP verb
VerbEntries(tag) ==
    {n \in 1..Len(tag) : tag[n].at /\ ToUpper(tag[n].word) \in Verbs}

\* C5 (as stated): a function field is bound only if its parameter count
\* equals the template's bindings after the context and body slots and it
\* returns two values, the second an error; so no invocation runs with more
\* or fewer arguments than bindings.
C5_ArityCheckedAtBind ==
    /\ \A t \in prog : \A i \in Fields(t) :
          bound[t][i].set =>
             /\ ArityMatches(bound[t][i])
             /\ TargetType(variant, t)[i].numOut = 2
             /\ TargetType(variant, t)[i].out1Err
    /\ \A c \in Callers :
          calls[c].pc # "idle" => Len(calls[c].args) = Arity(calls[c].fn.tm)

\* C6 (as stated): a function field is bound only if its tag holds exactly
\* one verb entry, and that entry has a path.
C6_ExactlyOneVerb ==
    \A t \in prog : \A i \in Fields(t) :
        bound[t][i].set =>
           LET tag == TargetType(variant, t)[i].tag
           IN  /\ Cardinality(VerbEntries(tag)) = 1
               /\ \A n \in VerbEntries(tag) : Len(tag[n].vals) >= 1
               /\ bound[t][i].tm.httpMethod \in Verbs

\* the @Url entries with a value, over the marker fields in order
UrlValues(fields) ==
    LET Marks == {x \in 1..Len(fields) : fields[x].kind = "marker"}
    IN  { <<x, n>> \in Marks \X (1..3) :
            /\ n <= Len(fields[x].tag)
            /\ fields[x].tag[n].at /\ fields[x].tag[n].word = "Url"
            /\ Len(fields[x].tag[n].vals) >= 1 }

\* the base URL by the stated precedence: literal, else looked-up value,
\* else the client-level base URL
PrecedenceUrl(t) ==
    LET fields == TargetType(variant, t)
        U      == UrlValues(fields)
    IN  IF U = {} THEN baseURL
        ELSE LET m   == CHOOSE u \in U :
                          \A w \in U : u[1] < w[1] \/ (u[1] = w[1] /\ u[2] <= w[2])
                 val == fields[m[1]].tag[m[2]].vals[1]
             IN  IF val[1] \in {"http://", "https://"} THEN val
                 ELSE IF val \in DOMAIN viper /\ viper[val] # Empty THEN viper[val]
                 ELSE baseURL

\* C9 (as stated): the base URL a bind chooses is the literal of the @Url
\* marker, else the value its key looks up, else the client-level base URL;
\* it is not empty when the client-level base URL is not.
C9_BaseUrlPrecedence ==
    \A t \in prog :
        bindCount[t] >= 1 =>
           \A i \in Fields(t) :
              bound[t][i].set =>
                 /\ bound[t][i].baseUrl = PrecedenceUrl(t)
                 /\ baseURL # Empty => bound[t][i].baseUrl # Empty

\* ------------------------------------------------------------------ path
\* the binding (index into paths) whose placeholder starts at position i
BindingAt(path, paths, i) ==
    {k \in 1..Len(paths) : MatchAt(path, Placeholder(paths[k]), i)}

\* the template with every bound placeholder replaced once, in one pass,
\* by the string of its binding's argument; other text is copied
RECURSIVE SubstOnce(_, _, _, _)
SubstOnce(path, paths, vals, i) ==
    IF i > Len(path) THEN <<>>
    ELSE IF BindingAt(path, paths, i) # {}
         THEN LET k == CHOOSE x \in BindingAt(path, paths, i) :
                          \A y \in BindingAt(path, paths, i) : x <= y
              IN  vals[k] \o SubstOnce(path, paths, vals, i + Len(Placeholder(paths[k])))
         ELSE <<path[i]>> \o SubstOnce(path, paths, vals, i + 1)

\* C8 (as stated): with an argument list of the template's arity, the final
\* path is the template with each bound placeholder replaced once by its own
\* argument and everything else verbatim (text that came from an argument is
\* not substituted again), and the stored template is unchanged.
C8_SubstitutedOnce ==
    \A c \in Callers :
        LET k  == calls[c]
            tm == k.fn.tm
        IN  (k.pc \notin {"idle", "panic"} /\ ArityMatches(k.fn)) =>
              /\ k.b.path =
                    SubstOnce(tm.path, tm.paths,
                              [x \in 1..Len(tm.paths) |->
                                  Sprint(k.args[Position(tm, "PATH", x)])], 1)
              /\ bound[k.target][k.field].tm.path = tm.path

\* -------------------------------------------------------------- base URL
Sent(k) == k.pc \in {"sent"} \cup Terminal

\* C11 (as stated): a callable sends its requests to the base URL resolved
\* when its own target was bound, also after the client bound another
\* target since; and the URL the callable reports for a request is the URL
\* the transport used.
C11_OwnBaseUrl ==
    \A c \in Callers :
        Sent(calls[c]) =>
            /\ calls[c].url = calls[c].fn.baseUrl \o calls[c].b.path
            /\ calls[c].logged = calls[c].url

====
